---- MODULE Spec2Model ----
(***************************************************************************)
(* mlens/parallel/fit_predict.py: the dispatch-and-collect layer over the  *)
(* joblib worker pool.  One call of an orchestrator is modelled from its   *)
(* entry to its return (or to the exception that leaves it): the lazy job  *)
(* generator, the pool that runs the jobs concurrently and hands the       *)
(* results back in submission order, and the post-processing of the        *)
(* result list.                                                            *)
(***************************************************************************)
EXTENDS Integers, Sequences, FiniteSets, TLC

\* ---------------------------------------------------------------- bounds
MaxData   == 2      \* data tuples per call
MaxEst    == 2      \* estimators per case list / per estimators dict
MaxFolds  == 2      \* folds handed to cross_validate
MaxParams == 1      \* parameter sets per estimator
Workers   == 2      \* jobs the pool keeps in flight at once
MaxFail   == 2      \* estimator failures in one call

\* --------------------------------------------------------------- universe
None     == "None"
Cases    == {"X", "Y"}
EstNames == {"m1", "m2"}           \* names of the estimators in the case lists
ColNames == EstNames \cup {"m3"}   \* names the caller may expect as columns

DefaultErrorScore == -99
ErrorScores == {DefaultErrorScore, -1}

Range(s) == {s[i] : i \in 1..Len(s)}

Last(s) == s[Len(s)]

\* sequences without repetition over S, of length at most n
DistinctSeqs(S, n) ==
    UNION {{s \in [1..k -> S] : \A i, j \in 1..k : i # j => s[i] # s[j]} : k \in 0..n}

\* data: [payload, key] lists; the payload stands for the arrays of the tuple.
\* The two case keys are interchangeable, so the first tuple is tagged "X".
DataLists ==
    UNION {{[i \in 1..k |-> <<i, c[i]>>] :
               c \in {f \in [1..k -> Cases] : k > 0 => f[1] = "X"}} : k \in 0..MaxData}

\* an entry of an estimator list: (est_name, estimator)
Est(name) == <<name, <<"estimator", name>>>>

EstLists == {[i \in 1..Len(s) |-> Est(s[i])] : s \in DistinctSeqs(EstNames, MaxEst)}

\* estimator_cases: a dict from some of the case keys to estimator lists
CaseMaps == UNION {[D -> EstLists] : D \in SUBSET Cases}

ColumnLists == DistinctSeqs(ColNames, Cardinality(ColNames))

VARIABLES
    pc,                 \* "idle", "parallel", "out", "done", "raised"
    op,                 \* the orchestrator that was called
    function,           \* the work function handed to the pool
    data, estimator_cases, optional_args,
    folded_preds, fit,  \* base_predict's two booleans
    estimators, param_sets, error_score,   \* cross_validate's inputs
    todo,               \* jobs the generator has yet to yield
    genErr,             \* the exception the generator ends with, or None
    jobs,               \* arguments of the submitted jobs, in submission order
    running,            \* indexes of the submitted jobs still in flight
    failed,             \* indexes of the jobs whose estimator failed
    slots,              \* result per submitted job (<<>> while in flight)
    overtaken,          \* history of a direct _parallel_estimation call: some
                        \* job completed before an earlier-submitted one
    out,                \* the list the pool returned
    columns, as_df,     \* base_predict's inputs read after the pool returned
    ret,                \* the value returned to the caller
    err                 \* the exception raised to the caller, or None

vars == <<pc, op, function, data, estimator_cases, optional_args, folded_preds,
          fit, estimators, param_sets, error_score, todo, genErr, jobs, running,
          failed, slots, overtaken, out, columns, as_df, ret, err>>

\* ------------------------------------------------------ _parallel_estimation

\* estimator_cases[key], dict lookup: a missing key raises KeyError
LookupGet(d, key) ==
    IF key \in DOMAIN d THEN [err |-> None, val |-> d[key]]
    ELSE [err |-> None, val |-> <<>>]

Lookup(d, key) ==
    IF key \in DOMAIN d THEN [err |-> None, val |-> d[key]]
    ELSE [err |-> "KeyError", val |-> <<>>]

\* optional_args if optional_args is not None else tuple()
AddInput(oa) == IF oa.isNone THEN <<>> ELSE oa.val

\* the inner loop: for est in <list>: add_input + (tup, est)
EstJobs(add_input, tup, ests) ==
    [e \in 1..Len(ests) |-> add_input \o <<tup, ests[e]>>]

\* the generator handed to Parallel: what it yields before it ends, and the
\* exception it ends with, if any
RECURSIVE Generator(_, _, _)
Generator(add_input, d, cases) ==
    IF d = <<>> THEN [jobs |-> <<>>, err |-> None]
    ELSE LET tup  == Head(d)
             look == Lookup(cases, Last(tup))
         IN  IF look.err # None THEN [jobs |-> <<>>, err |-> look.err]
             ELSE LET rest == Generator(add_input, Tail(d), cases)
                  IN  [jobs |-> EstJobs(add_input, tup, look.val) \o rest.jobs,
                       err  |-> rest.err]

\* ------------------------------------------------------------ work functions
\* (mlens/parallel/_fit_predict_functions.py; each takes the job's arguments
\* and, when the estimator fails, returns a result whose name is None)

\* the function parameter of a direct _parallel_estimation call
WorkFn(arg) == <<"result", arg>>

\* (y, (x, case), (est_name, estimator)) -> (case, est_name, fitted estimator)
_fit_estimator(arg, ok) ==
    LET tup == arg[2]
        est == arg[3]
    IN  IF ok THEN <<Last(tup), est[1], <<"fitted", est[1], tup[1]>>>>
        ELSE <<Last(tup), None, None>>

\* fit on the training fold, predictions of the test fold:
\* (name, rows of the fold, predictions)
_fit_predict_base(arg, ok) ==
    LET tup == arg[1]
        est == arg[2]
    IN  IF ok THEN <<est[1], tup[1], <<"preds", est[1], tup[1]>>>>
        ELSE <<None, tup[1], None>>

\* predictions of the fold from the estimator fitted before
_predict_base(arg, ok) ==
    LET tup == arg[1]
        est == arg[2]
    IN  IF ok THEN <<est[1], tup[1], <<"preds", est[1], tup[1]>>>>
        ELSE <<None, tup[1], None>>

\* full-set predictions: (name, predictions)
_predict(arg, ok) ==
    LET tup == arg[1]
        est == arg[2]
    IN  IF ok THEN <<est[1], <<"preds", est[1], tup[1]>>>>
        ELSE <<None, None>>

\* the metric scoring gives a combination that fits and scores
Metric(tup, est_name, i) ==
    10 * tup[1] + i + 1 + (IF est_name = "m1" THEN 0 ELSE 100)

\* (est, est_name, params, scoring, tup, i, error_score) -> result entry
_fit_score(arg, ok) ==
    <<arg[5], arg[2], arg[6], IF ok THEN Metric(arg[5], arg[2], arg[6]) ELSE arg[7]>>

Apply(f, arg, ok) ==
    CASE f = "function"          -> WorkFn(arg)
      [] f = "_fit_estimator"    -> _fit_estimator(arg, ok)
      [] f = "_fit_predict_base" -> _fit_predict_base(arg, ok)
      [] f = "_predict_base"     -> _predict_base(arg, ok)
      [] f = "_predict"          -> _predict(arg, ok)
      [] f = "_fit_score"        -> _fit_score(arg, ok)

\* --------------------------------------------------------------- the pool
\* Parallel(n_jobs, verbose)(delayed(f)(args) for ...): the results come back
\* in the order the jobs were submitted

\* the result of job i in the order of arrival: the first free place
StoreArrival(s, i, r) ==
    LET free == {k \in 1..Len(s) : s[k] = <<>>}
        k0   == CHOOSE k \in free : \A m \in free : k <= m
    IN  [s EXCEPT ![k0] = r]

\* the result of job i goes to place i of the result list
Store(s, i, r) == [s EXCEPT ![i] = r]

NoCall ==
    /\ data = <<>> /\ estimator_cases = <<>>
    /\ optional_args = [isNone |-> TRUE, val |-> <<>>]
    /\ folded_preds = FALSE /\ fit = FALSE
    /\ estimators = <<>> /\ param_sets = <<>> /\ error_score = DefaultErrorScore

Init ==
    /\ pc = "idle" /\ op = "none" /\ function = "none"
    /\ NoCall
    /\ todo = <<>> /\ genErr = None /\ jobs = <<>> /\ running = {}
    /\ failed = {} /\ slots = <<>> /\ overtaken = FALSE /\ out = <<>>
    /\ columns = <<>> /\ as_df = FALSE /\ ret = <<>> /\ err = None

\* entering Parallel with the generator gen
Enter(name, f, gen) ==
    /\ pc = "idle"
    /\ pc' = "parallel" /\ op' = name /\ function' = f
    /\ todo' = gen.jobs /\ genErr' = gen.err
    /\ UNCHANGED <<jobs, running, failed, slots, overtaken, out, columns, as_df,
                   ret, err>>

\* the pool takes the next job from the generator
Dispatch ==
    /\ pc = "parallel" /\ todo # <<>> /\ Cardinality(running) < Workers
    /\ jobs' = Append(jobs, Head(todo))
    /\ slots' = Append(slots, <<>>)
    /\ running' = running \cup {Len(jobs) + 1}
    /\ todo' = Tail(todo)
    /\ UNCHANGED <<pc, op, function, data, estimator_cases, optional_args,
                   folded_preds, fit, estimators, param_sets, error_score, genErr,
                   failed, overtaken, out, columns, as_df, ret, err>>

\* a job in flight completes, in any order; its estimator fits or fails
Complete ==
    /\ pc = "parallel"
    /\ \E i \in running, ok \in BOOLEAN :
        /\ function = "function" => ok
        /\ ~ok => Cardinality(failed) < MaxFail
        /\ slots' = Store(slots, i, Apply(function, jobs[i], ok))
        /\ running' = running \ {i}
        /\ failed' = IF ok THEN failed ELSE failed \cup {i}
        /\ overtaken' = (overtaken \/ (op = "_parallel_estimation"
                                          /\ \E j \in running : j < i))
    /\ UNCHANGED <<pc, op, function, data, estimator_cases, optional_args,
                   folded_preds, fit, estimators, param_sets, error_score, todo,
                   genErr, jobs, out, columns, as_df, ret, err>>

\* the generator raises while the pool iterates it: the exception leaves
\* Parallel and, nothing catching it, the orchestrator
GeneratorRaise ==
    /\ pc = "parallel" /\ todo = <<>> /\ genErr # None
    /\ pc' = "raised" /\ err' = genErr
    /\ UNCHANGED <<op, function, data, estimator_cases, optional_args,
                   folded_preds, fit, estimators, param_sets, error_score, todo,
                   genErr, jobs, running, failed, slots, overtaken, out, columns,
                   as_df, ret>>

\* every job is back: Parallel returns the result list
Retrieve ==
    /\ pc = "parallel" /\ todo = <<>> /\ genErr = None /\ running = {}
    /\ pc' = "out" /\ out' = slots
    /\ UNCHANGED <<op, function, data, estimator_cases, optional_args,
                   folded_preds, fit, estimators, param_sets, error_score, todo,
                   genErr, jobs, running, failed, slots, overtaken, columns,
                   as_df, ret, err>>

\* ------------------------------------------------- _parallel_estimation call
OptionalArgs == {[isNone |-> TRUE, val |-> <<>>], [isNone |-> FALSE, val |-> <<"y">>]}

CallParallelEstimation ==
    \E d \in DataLists, ec \in CaseMaps, oa \in OptionalArgs :
        /\ Enter("_parallel_estimation", "function", Generator(AddInput(oa), d, ec))
        /\ data' = d /\ estimator_cases' = ec /\ optional_args' = oa
        /\ UNCHANGED <<folded_preds, fit, estimators, param_sets, error_score>>

ParallelEstimationReturn ==
    /\ pc = "out" /\ op = "_parallel_estimation"
    /\ pc' = "done" /\ ret' = out
    /\ UNCHANGED <<op, function, data, estimator_cases, optional_args,
                   folded_preds, fit, estimators, param_sets, error_score, todo,
                   genErr, jobs, running, failed, slots, overtaken, out, columns,
                   as_df, err>>

NextPE == CallParallelEstimation \/ Dispatch \/ Complete \/ GeneratorRaise
            \/ Retrieve \/ ParallelEstimationReturn

SpecPE == Init /\ [][NextPE]_vars

\* ------------------------------------------------------ _pre_check_estimators

\* zip(*out): one tuple per field, as many as the shortest result has
ZipStar(o) ==
    IF o = <<>> THEN <<>>
    ELSE LET n == CHOOSE m \in {Len(o[i]) : i \in 1..Len(o)} :
                      \A i \in 1..Len(o) : m <= Len(o[i])
         IN  [k \in 1..n |-> [i \in 1..Len(o) |-> o[i][k]]]

\* [ce for ce in names if ce in case_est_base_columns]: the results' order
FilterArrival(cols, names) == SelectSeq(names, LAMBDA ce : ce \in Range(cols))

\* [ce for ce in case_est_base_columns if ce in case_est_names]
FilterColumns(cols, names) == SelectSeq(cols, LAMBDA ce : ce \in Range(names))

\* no check of the results at all: every expected column is kept
PreCheckKeepAll(o, cols) == [err |-> None, val |-> cols]

\* the three-target unpacking, then on ValueError the two-target one; the
\* ValueError of the second unpacking is not caught
_pre_check_estimators(o, cols) ==
    LET z == ZipStar(o)
    IN  IF Len(z) = 3 THEN [err |-> None, val |-> FilterColumns(cols, z[1])]
        ELSE IF Len(z) = 2 THEN [err |-> None, val |-> FilterColumns(cols, z[1])]
        ELSE [err |-> "ValueError", val |-> <<>>]

\* -------------------------------------------------------------- base_predict

SelectSwapped(folded, f) ==
    IF folded THEN (IF f THEN "_predict_base" ELSE "_fit_predict_base")
    ELSE "_predict"

\* lines 72-81: the work function the two booleans select
SelectFunction(folded, f) ==
    IF folded THEN (IF f THEN "_fit_predict_base" ELSE "_predict_base")
    ELSE "_predict"

\* the prediction matrix: per column of fitted, the row groups the results
\* with that name fill; the other cells keep the fill value
_construct_matrix(o, fitted, folded) ==
    [j \in 1..Len(fitted) |->
        {IF folded THEN o[i][2] ELSE 0 : i \in {k \in 1..Len(o) : o[k][1] = fitted[j]}}]

\* DataFrame(M, columns=fitted_estimators)
DataFrame(M, cols) == [matrix |-> M, columns |-> cols]

CallBasePredict ==
    \E d \in DataLists, ec \in CaseMaps, folded \in BOOLEAN, f \in BOOLEAN :
        /\ Enter("base_predict", SelectFunction(folded, f), Generator(<<>>, d, ec))
        /\ data' = d /\ estimator_cases' = ec /\ folded_preds' = folded /\ fit' = f
        /\ UNCHANGED <<optional_args, estimators, param_sets, error_score>>

\* lines 86-92, with the arguments columns and as_df that are first read here
BasePredictReturn ==
    /\ pc = "out" /\ op = "base_predict"
    /\ \E cols \in ColumnLists, df \in BOOLEAN :
        LET pre == _pre_check_estimators(out, cols)
            M   == _construct_matrix(out, pre.val, folded_preds)
        IN  /\ columns' = cols /\ as_df' = df
            /\ IF pre.err # None
               THEN pc' = "raised" /\ err' = pre.err /\ ret' = ret
               ELSE /\ pc' = "done" /\ err' = err
                    /\ ret' = <<IF df THEN DataFrame(M, pre.val) ELSE [matrix |-> M],
                               pre.val>>
    /\ UNCHANGED <<op, function, data, estimator_cases, optional_args,
                   folded_preds, fit, estimators, param_sets, error_score, todo,
                   genErr, jobs, running, failed, slots, overtaken, out>>

NextBP == CallBasePredict \/ Dispatch \/ Complete \/ GeneratorRaise
            \/ Retrieve \/ BasePredictReturn

SpecBP == Init /\ [][NextBP]_vars

\* ------------------------------------------------------------ fit_estimators

\* the list of the case is instantiated before the name is looked at
RegisterEager(acc, case, est_name, est) ==
    LET d == [k \in DOMAIN acc \cup {case} |->
                 IF k \in DOMAIN acc THEN acc[k] ELSE <<>>]
    IN  IF est_name # None THEN [d EXCEPT ![case] = Append(@, <<est_name, est>>)]
        ELSE d

\* the entry is put in front of the list of the case
RegisterInFront(acc, case, est_name, est) ==
    IF est_name # None
    THEN LET d == [k \in DOMAIN acc \cup {case} |->
                      IF k \in DOMAIN acc THEN acc[k] ELSE <<>>]
         IN  [d EXCEPT ![case] = <<<<est_name, est>>>> \o @]
    ELSE acc

\* lines 103-108: the body of the loop over out
Register(acc, case, est_name, est) ==
    IF est_name # None
    THEN LET d == [k \in DOMAIN acc \cup {case} |->
                      IF k \in DOMAIN acc THEN acc[k] ELSE <<>>]
         IN  [d EXCEPT ![case] = Append(@, <<est_name, est>>)]
    ELSE acc

\* lines 100-110: for case, est_name, est in out (a result that is no triple
\* makes the unpacking raise ValueError)
RECURSIVE FitLoop(_, _)
FitLoop(o, acc) ==
    IF o = <<>> THEN [err |-> None, val |-> acc]
    ELSE IF Len(Head(o)) # 3 THEN [err |-> "ValueError", val |-> acc]
    ELSE FitLoop(Tail(o), Register(acc, Head(o)[1], Head(o)[2], Head(o)[3]))

CallFitEstimators ==
    \E d \in DataLists, ec \in CaseMaps :
        /\ Enter("fit_estimators", "_fit_estimator", Generator(<<"y">>, d, ec))
        /\ data' = d /\ estimator_cases' = ec
        /\ optional_args' = [isNone |-> FALSE, val |-> <<"y">>]
        /\ UNCHANGED <<folded_preds, fit, estimators, param_sets, error_score>>

FitEstimatorsReturn ==
    /\ pc = "out" /\ op = "fit_estimators"
    /\ LET loop == FitLoop(out, <<>>)
       IN  IF loop.err # None
           THEN pc' = "raised" /\ err' = loop.err /\ ret' = ret
           ELSE pc' = "done" /\ err' = err /\ ret' = loop.val
    /\ UNCHANGED <<op, function, data, estimator_cases, optional_args,
                   folded_preds, fit, estimators, param_sets, error_score, todo,
                   genErr, jobs, running, failed, slots, overtaken, out, columns,
                   as_df>>

NextFE == CallFitEstimators \/ Dispatch \/ Complete \/ GeneratorRaise
            \/ Retrieve \/ FitEstimatorsReturn

SpecFE == Init /\ [][NextFE]_vars

\* ------------------------------------------------------------ cross_validate

FoldLists == {[i \in 1..k |-> <<i>>] : k \in 0..MaxFolds}

ParamLists == {[j \in 1..k |-> <<"params", j>>] : k \in 0..MaxParams}

\* param_sets: a dict from some of the estimator names to parameter-set lists
ParamMaps == UNION {[D -> ParamLists] : D \in SUBSET EstNames}

\* the arguments of one _fit_score job, the default error_score in place of
\* the caller's
CVJobDefaultScore(e, params, tup, i, es) ==
    <<e[2], e[1], params, "scoring", tup, i, DefaultErrorScore>>

\* delayed(_fit_score)(est, est_name, params, scoring, tup, i, error_score)
CVJob(e, params, tup, i, es) == <<e[2], e[1], params, "scoring", tup, i, es>>

\* for i, params in enumerate(param_sets[est_name])
ParamJobs(tup, e, ps, es) == [j \in 1..Len(ps) |-> CVJob(e, ps[j], tup, j - 1, es)]

\* for est_name, est in estimators.items(): ... param_sets[est_name]
RECURSIVE EstimatorJobs(_, _, _, _)
EstimatorJobs(tup, ests, psets, es) ==
    IF ests = <<>> THEN [jobs |-> <<>>, err |-> None]
    ELSE LET look == Lookup(psets, Head(ests)[1])
         IN  IF look.err # None THEN [jobs |-> <<>>, err |-> look.err]
             ELSE LET rest == EstimatorJobs(tup, Tail(ests), psets, es)
                  IN  [jobs |-> ParamJobs(tup, Head(ests), look.val, es) \o rest.jobs,
                       err  |-> rest.err]

\* the jobs of the first fold only
CVFirstFold(dout, ests, psets, es) ==
    IF dout = <<>> THEN [jobs |-> <<>>, err |-> None]
    ELSE EstimatorJobs(Head(dout), ests, psets, es)

\* for tup in dout: the generator of lines 117-121
RECURSIVE CVGenerator(_, _, _, _)
CVGenerator(dout, ests, psets, es) ==
    IF dout = <<>> THEN [jobs |-> <<>>, err |-> None]
    ELSE LET first == EstimatorJobs(Head(dout), ests, psets, es)
         IN  IF first.err # None THEN first
             ELSE LET rest == CVGenerator(Tail(dout), ests, psets, es)
                  IN  [jobs |-> first.jobs \o rest.jobs, err |-> rest.err]

CallCrossValidate ==
    \E dout \in FoldLists, ests \in EstLists, psets \in ParamMaps, es \in ErrorScores :
        /\ Enter("cross_validate", "_fit_score", CVGenerator(dout, ests, psets, es))
        /\ data' = dout /\ estimators' = ests /\ param_sets' = psets
        /\ error_score' = es
        /\ UNCHANGED <<estimator_cases, optional_args, folded_preds, fit>>

CrossValidateReturn ==
    /\ pc = "out" /\ op = "cross_validate"
    /\ pc' = "done" /\ ret' = out
    /\ UNCHANGED <<op, function, data, estimator_cases, optional_args,
                   folded_preds, fit, estimators, param_sets, error_score, todo,
                   genErr, jobs, running, failed, slots, overtaken, out, columns,
                   as_df, err>>

NextCV == CallCrossValidate \/ Dispatch \/ Complete \/ GeneratorRaise
            \/ Retrieve \/ CrossValidateReturn

SpecCV == Init /\ [][NextCV]_vars

\* ------------------------------------------------------- every orchestrator
Next == CallParallelEstimation \/ CallBasePredict \/ CallFitEstimators
          \/ CallCrossValidate \/ Dispatch \/ Complete \/ GeneratorRaise
          \/ Retrieve \/ ParallelEstimationReturn \/ BasePredictReturn
          \/ FitEstimatorsReturn \/ CrossValidateReturn

Spec == Init /\ [][Next]_vars

\* the orchestrators that go through _parallel_estimation
NextPEcallers == CallParallelEstimation \/ CallBasePredict \/ CallFitEstimators
                   \/ Dispatch \/ Complete \/ GeneratorRaise \/ Retrieve
                   \/ ParallelEstimationReturn \/ BasePredictReturn
                   \/ FitEstimatorsReturn

SpecPEcallers == Init /\ [][NextPEcallers]_vars

\* ==================================================================== claims

Dispatching == {"_parallel_estimation", "base_predict", "fit_estimators"}

\* every data tuple's case key is a key of estimator_cases
KeysKnown == \A t \in 1..Len(data) : Last(data[t]) \in DOMAIN estimator_cases

\* the estimator list of data tuple t
ListOf(t) == estimator_cases[Last(data[t])]

\* the number of jobs the static enumeration places before those of tuple t
RECURSIVE JobsBefore(_)
JobsBefore(t) == IF t = 1 THEN 0 ELSE JobsBefore(t - 1) + Len(ListOf(t - 1))

\* C1: with every case key in the mapping, _parallel_estimation returns
\* sum(len(estimator_cases[tup[-1]])) results, and the result at the place of
\* (tuple t, estimator e) in the tuple-major, estimator-minor enumeration is
\* the result of that job, whatever order the jobs completed in.
C1_ResultsInEnumerationOrder ==
    (op = "_parallel_estimation" /\ pc = "done") =>
        /\ KeysKnown
        /\ Len(ret) = JobsBefore(Len(data) + 1)
        /\ \A t \in 1..Len(data) : \A e \in 1..Len(ListOf(t)) :
              ret[JobsBefore(t) + e]
                  = WorkFn(AddInput(optional_args) \o <<data[t], ListOf(t)[e]>>)

\* a call of two tuples and three or more jobs returned, a job having
\* completed before one submitted earlier
C1_Witness ==
    /\ op = "_parallel_estimation" /\ pc = "done"
    /\ overtaken /\ Len(data) = 2 /\ Len(ret) >= 3

\* C8: when a data tuple's case key is missing from the mapping, the call
\* never gets a result list and never returns: the only way it ends is the
\* KeyError of the lookup reaching the caller.
C8_MissingKeyRaises ==
    (op \in Dispatching /\ ~KeysKnown) =>
        /\ pc \in {"parallel", "raised"}
        /\ genErr = "KeyError"
        /\ out = <<>> /\ ret = <<>>
        /\ pc = "raised" => err = "KeyError"

\* fit_estimators ended by the KeyError after a job had been submitted
C8_Witness ==
    /\ op = "fit_estimators" /\ pc = "raised" /\ err = "KeyError"
    /\ ~KeysKnown /\ jobs # <<>>

\* ---------------------------------------------------------------- base_predict

\* the estimator name of submitted job k of a dispatching orchestrator
NameOfJob(k) == Last(jobs[k])[1]

\* the names of the estimators some job of which succeeded
SucceededNames == {NameOfJob(k) : k \in (1..Len(jobs)) \ failed}

\* the place of name n in the sequence s of distinct names
PlaceIn(s, n) == CHOOSE i \in 1..Len(s) : s[i] = n

C9_OnlyBadKeysRaise ==
    (op \in {"base_predict", "fit_estimators"} /\ KeysKnown) => pc # "raised"

\* C10: base_predict's work function is the one the two booleans select,
\* and every completed job of the call was run with it.
C10_FunctionSelection ==
    (op = "base_predict") =>
        /\ (folded_preds /\ fit) => function = "_fit_predict_base"
        /\ (folded_preds /\ ~fit) => function = "_predict_base"
        /\ ~folded_preds => function = "_predict"
        /\ \A k \in (1..Len(slots)) \ running :
              slots[k] = IF ~folded_preds THEN _predict(jobs[k], k \notin failed)
                         ELSE IF fit THEN _fit_predict_base(jobs[k], k \notin failed)
                         ELSE _predict_base(jobs[k], k \notin failed)

\* folded predictions from estimators fitted before, two jobs returned
C10_Witness ==
    /\ op = "base_predict" /\ pc = "done"
    /\ folded_preds /\ ~fit /\ function = "_predict_base" /\ Len(out) >= 2

\* -------------------------------------------------------------- fit_estimators

\* the places, in the static enumeration, of the jobs of case c that succeeded
FittedPlaces(c) ==
    UNION {{JobsBefore(t) + e : e \in 1..Len(ListOf(t))} \ failed :
              t \in {u \in 1..Len(data) : Last(data[u]) = c}}

\* C4: a case key is in the mapping fit_estimators returns exactly when a
\* result of that case has a name that is not None, and no key is mapped to
\* an empty list.
C4_KeyIffSomeFit ==
    (op = "fit_estimators" /\ pc = "done") =>
        /\ \A c \in Cases :
              c \in DOMAIN ret <=>
                  \E k \in 1..Len(out) : out[k][1] = c /\ out[k][2] # None
        /\ \A c \in DOMAIN ret : ret[c] # <<>>

\* both estimators of case X failed on the first tuple, case Y has a fit
C4_Witness ==
    /\ op = "fit_estimators" /\ pc = "done"
    /\ Len(data) = 2 /\ data[2][2] = "Y"
    /\ Len(estimator_cases["X"]) = 2 /\ failed = {1, 2}
    /\ "X" \notin DOMAIN ret /\ "Y" \in DOMAIN ret

\* C5: the list of a case is the (name, fitted model) pairs of the case's
\* successful jobs, in the order of the static enumeration (tuples in input
\* order, then the estimator list's order), the failed ones dropped.
C5_ListsInDispatchOrder ==
    (op = "fit_estimators" /\ pc = "done") =>
        \A c \in Cases :
            LET places == FittedPlaces(c)
            IN  IF places = {} THEN c \notin DOMAIN ret
                ELSE /\ c \in DOMAIN ret
                     /\ Len(ret[c]) = Cardinality(places)
                     /\ \A t \in 1..Len(data) : \A e \in 1..Len(ListOf(t)) :
                           (JobsBefore(t) + e) \in places =>
                               ret[c][Cardinality({q \in places : q <= JobsBefore(t) + e})]
                                   = <<ListOf(t)[e][1],
                                       <<"fitted", ListOf(t)[e][1], data[t][1]>>>>

\* tuples tagged X and Y, {X: [m1], Y: [m1, m2]}, m2 failing
C5_Witness ==
    /\ op = "fit_estimators" /\ pc = "done"
    /\ data = <<<<1, "X">>, <<2, "Y">>>>
    /\ estimator_cases = [c \in Cases |->
           IF c = "X" THEN <<Est("m1")>> ELSE <<Est("m1"), Est("m2")>>]
    /\ failed = {3}
    /\ ret = [c \in Cases |->
           IF c = "X" THEN <<<<"m1", <<"fitted", "m1", 1>>>>>>
           ELSE <<<<"m1", <<"fitted", "m1", 2>>>>>>]

\* -------------------------------------------------------------- cross_validate

\* every estimator's name is a key of param_sets
ParamKeysKnown ==
    \A k \in 1..Len(estimators) : estimators[k][1] \in DOMAIN param_sets

\* sum(len(param_sets[name]) for name in estimators), over the first n
RECURSIVE SumParams(_)
SumParams(n) ==
    IF n = 0 THEN 0 ELSE SumParams(n - 1) + Len(param_sets[estimators[n][1]])

\* C6 as stated: len(folds) * len(estimators) * sum(len(param_sets[name]))
\* result entries.
C6_CountWithEstimatorFactor ==
    (op = "cross_validate" /\ pc = "done" /\ ParamKeysKnown) =>
        Len(ret) = Len(data) * Len(estimators) * SumParams(Len(estimators))

\* C6, amended: cross_validate returns len(folds) *
\* sum(len(param_sets[name]) for name in estimators) result entries, one per
\* (fold, estimator, parameter set).
C6_CountOfCrossProduct ==
    (op = "cross_validate" /\ pc = "done" /\ ParamKeysKnown) =>
        Len(ret) = Len(data) * SumParams(Len(estimators))

\* two folds, two estimators with a parameter set each: four entries
C6_Witness ==
    /\ op = "cross_validate" /\ pc = "done" /\ ParamKeysKnown
    /\ Len(data) = 2 /\ Len(estimators) = 2
    /\ SumParams(Len(estimators)) = 2 /\ Len(ret) = 4

\* C7: with every name a key of param_sets, a call in which combinations
\* failed does not raise; the entry of a failed combination records
\* error_score and the entry of every other one the metric of its own
\* (fold, estimator, parameter set).
C7_FailureRecordsErrorScore ==
    (op = "cross_validate" /\ ParamKeysKnown) =>
        /\ pc # "raised"
        /\ pc = "done" =>
              \A k \in 1..Len(ret) :
                  /\ ret[k][1] = jobs[k][5] /\ ret[k][2] = jobs[k][2]
                  /\ ret[k][3] = jobs[k][6]
                  /\ ret[k][4] = IF k \in failed THEN error_score
                                 ELSE Metric(jobs[k][5], jobs[k][2], jobs[k][6])

\* one combination of three failed, under an error_score that is not the
\* default
C7_Witness ==
    /\ op = "cross_validate" /\ pc = "done"
    /\ error_score # DefaultErrorScore
    /\ Len(ret) >= 3 /\ Cardinality(failed) = 1

====
